---------------------------- MODULE Spec2Model ----------------------------
(***************************************************************************)
(* Model of the cross-frame linking and precursor search of baseline.py    *)
(* and of the point cloud container of mass_spec_point_cloud.py.           *)
(*                                                                         *)
(* A point is the Python list [mz, rt, intensity, charge]; it is modelled  *)
(* as the tuple <<mz, rt, intensity, charge>>, so source index k is tuple  *)
(* index k+1.  mz and rt are fixed-point numbers in units of 0.001, which  *)
(* makes the tolerance 0.003 of the source the integer 3.  Python lists    *)
(* are sequences; a source index i into a list is position i+1.            *)
(***************************************************************************)
EXTENDS Integers, Sequences, FiniteSets, TLC

\* ------------------------------------------------------------------ bounds
MaxFrames == 5      \* frames the driver loads at most
MaxTotal == 3       \* features over all frames at most
MaxPts == 2         \* features in one frame at most
DeepFrames == 6     \* the same for the long-walk runs (linking only)
DeepTotal == 5
DeepPts == 2
SearchFrames == 4   \* the same for the runs with repeated searches
SearchTotal == 3
SearchPts == 2
SearchCalls == 2    \* calls of the search on the same frames and targets at most
MaxCloud == 2       \* points a point cloud holds at most
MaxCalls == 2       \* calls made on one point cloud at most

\* ------------------------------------------------------- program constants
Epsilon == 3        \* epsilon=0.003, in units of 0.001
MaxSkipped == 2     \* "if skipped > 2: break"
FrameStride == 17   \* range(i, 282, 17): coordinate of the frame number c < 17

\* ------------------------------------------------------------ input points
\* The feature sets the detector may report: one family per run.
FamIntensity == {<<3, 0, 1, 1>>, <<3, 0, 2, 1>>, <<3, 0, 3, 1>>}
FamMz == {<<0, 0, 1, 1>>, <<3, 0, 2, 1>>, <<6, 0, 1, 1>>, <<0, 0, 3, 1>>}
FamRtCharge == {<<3, 0, 2, 1>>, <<3, 4, 1, 1>>, <<3, 0, 1, 2>>, <<3, 0, 1, 1>>}
Families == {FamIntensity, FamMz, FamRtCharge}
\* the long-walk runs: a seed, a point that links to it, one that does not
FamDeep == {<<3, 0, 2, 1>>, <<3, 0, 1, 1>>, <<3, 4, 1, 1>>}

SeqsUpTo(S, n) == UNION {[1..k -> S] : k \in 0..n}

\* ----------------------------------------------------------- list helpers
\* list[i] for a source (0-based) index i
At(list, i) == list[i + 1]

\* a pop that also drops what follows the element
PopTruncate(list, i) == [k \in 1..i |-> list[k]]

\* list.pop(i): the list without the element of source index i
Pop(list, i) == [k \in 1..(Len(list) - 1) |-> IF k <= i THEN list[k] ELSE list[k + 1]]

\* "point in list"
Contains(list, x) == \E k \in 1..Len(list) : list[k] = x

RECURSIVE TotalLen(_)
TotalLen(lists) ==
    IF lists = <<>> THEN 0 ELSE Len(Head(lists)) + TotalLen(Tail(lists))

\* rt_idx_to_rt as the driver fills it for the first 17 frames
rt_idx_to_rt(i) == FrameStride * i

\* ----------------------------------------------- find_local_maxima_indices
\* max(enumerate(frame), key=intensity): the first index of the largest
\* intensity, as a source index; 0 for an empty frame.
MaxPtIdx(frame) ==
    IF Len(frame) = 0 THEN 0
    ELSE (CHOOSE k \in 1..Len(frame) :
            /\ \A m \in 1..Len(frame) : frame[m][3] <= frame[k][3]
            /\ \A m \in 1..(k - 1) : frame[m][3] < frame[k][3]) - 1

MaxInt(frame) == IF Len(frame) = 0 THEN 0 ELSE At(frame, MaxPtIdx(frame))[3]

\* mode='wrap' in the place of mode='clip'
ClipWrap(i, n) == (i + n) % n

\* numpy take(..., mode='clip'): an index outside the array is clipped
Clip(i, n) == IF i < 0 THEN 0 ELSE IF i > n - 1 THEN n - 1 ELSE i

\* np.greater_equal in the place of np.greater
GreaterEq(a, b) == a >= b

\* np.greater
Greater(a, b) == a > b

\* argrelextrema(max_ints, np.greater), order 1, mode 'clip'
IsRelExtremum(feature_arrays, f) ==
    LET n == Len(feature_arrays)
        M(g) == MaxInt(At(feature_arrays, g))
    IN /\ Greater(M(f), M(Clip(f + 1, n)))
       /\ Greater(M(f), M(Clip(f - 1, n)))

RECURSIVE LocalMaximaFrom(_, _)
LocalMaximaFrom(feature_arrays, f) ==
    IF f >= Len(feature_arrays) THEN <<>>
    ELSE (IF IsRelExtremum(feature_arrays, f)
          THEN << <<f, MaxPtIdx(At(feature_arrays, f))>> >>
          ELSE <<>>) \o LocalMaximaFrom(feature_arrays, f + 1)

find_local_maxima_indices(feature_arrays) == LocalMaximaFrom(feature_arrays, 0)

\* ------------------------------------------------------------ link_to_peak
\* the test without the upper bound on mz
QualifiesWideMz(peak, prev_val, point) ==
    /\ peak[1] - Epsilon <= point[1]
    /\ peak[2] - Epsilon <= point[2] /\ point[2] <= peak[2] + Epsilon
    /\ point[3] <= peak[3]
    /\ point[4] = peak[4]
    /\ point[3] < prev_val

\* the test of a candidate point against the seed (peak) and prev_val
Qualifies(peak, prev_val, point) ==
    /\ peak[1] - Epsilon <= point[1] /\ point[1] <= peak[1] + Epsilon
    /\ peak[2] - Epsilon <= point[2] /\ point[2] <= peak[2] + Epsilon
    /\ point[3] <= peak[3]
    /\ point[4] = peak[4]
    /\ point[3] < prev_val

\* a for loop that keeps the last point that passes the test
LastMatch(frame, peak, prev_val) ==
    LET hits == {i \in 0..(Len(frame) - 1) : Qualifies(peak, prev_val, At(frame, i))}
    IN IF hits = {} THEN -1 ELSE CHOOSE i \in hits : \A j \in hits : i >= j

\* the for loop over a frame: the source index of the first point that
\* passes the test, -1 when none does
FirstMatch(frame, peak, prev_val) ==
    LET hits == {i \in 0..(Len(frame) - 1) : Qualifies(peak, prev_val, At(frame, i))}
    IN IF hits = {} THEN -1 ELSE CHOOSE i \in hits : \A j \in hits : i <= j

\* the while condition of a walk: dir is -1 (backward) or 1 (forward)
InWalkRange(dir, walk_idx, n) == IF dir < 0 THEN walk_idx >= 0 ELSE walk_idx < n

\* prev_val as the while body sets it at the top of every iteration
PrevValAtFrame(peak) == peak[3]

\* after a frame without a match: TRUE when the walk breaks
SkipBreaks(skipped) == skipped > MaxSkipped

\* a walk that stays on the frame of a link
NextWalkIdxStay(dir, walk_idx) == walk_idx

\* "walk_idx-= 1" / "walk_idx+= 1" after a link
NextWalkIdx(dir, walk_idx) == walk_idx + dir

\* One walk.  st holds the working lists (pts, left), the species being
\* built (sp = <<coordinates, points>>) and the log of the frames visited.
RECURSIVE Walk(_, _, _, _, _)
Walk(dir, walk_idx, skipped, peak, st) ==
    IF ~InWalkRange(dir, walk_idx, Len(st.pts)) THEN st
    ELSE IF Len(At(st.pts, walk_idx)) = 0
    THEN [st EXCEPT !.log = Append(@, [dir |-> dir, idx |-> walk_idx, kind |-> "empty"])]
    ELSE LET frame == At(st.pts, walk_idx)
             prev_val == PrevValAtFrame(peak)
             i == FirstMatch(frame, peak, prev_val)
         IN IF i >= 0
            THEN Walk(dir, NextWalkIdx(dir, walk_idx), skipped, peak,
                      [pts |-> [st.pts EXCEPT ![walk_idx + 1] = Pop(frame, i)],
                       left |-> [st.left EXCEPT ![walk_idx + 1] = @ - 1],
                       sp |-> <<Append(st.sp[1], rt_idx_to_rt(walk_idx)),
                                Append(st.sp[2], At(frame, i))>>,
                       log |-> Append(st.log, [dir |-> dir, idx |-> walk_idx,
                                               kind |-> "link"])])
            ELSE IF SkipBreaks(skipped + 1)
            THEN [st EXCEPT !.log = Append(@, [dir |-> dir, idx |-> walk_idx,
                                               kind |-> "stop"])]
            ELSE Walk(dir, walk_idx + dir, skipped + 1, peak,
                      [st EXCEPT !.log = Append(@, [dir |-> dir, idx |-> walk_idx,
                                                    kind |-> "skip"])])

\* the guard of link_to_peak
SeedGuard(left, rt_idx) == At(left, rt_idx) > 0

\* link_to_peak.  outcome is "linked", "guard" (the seed frame counts no
\* point left: nothing is done) or "IndexError" (pop index out of range).
link_to_peak(rt_idx, pt_idx, pts, left, species, counter) ==
    LET same(o) == [pts |-> pts, left |-> left, species |-> species,
                    log |-> <<>>, outcome |-> o]
    IN IF ~SeedGuard(left, rt_idx) THEN same("guard")
       ELSE IF pt_idx >= Len(At(pts, rt_idx)) THEN same("IndexError")
       ELSE LET peak == At(At(pts, rt_idx), pt_idx)
                s0 == [pts |-> [pts EXCEPT ![rt_idx + 1] = Pop(@, pt_idx)],
                       left |-> [left EXCEPT ![rt_idx + 1] = @ - 1],
                       sp |-> << <<rt_idx_to_rt(rt_idx)>>, <<peak>> >>,
                       log |-> <<>>]
                s1 == Walk(-1, rt_idx - 1, 0, peak, s0)
                s2 == Walk(1, rt_idx + 1, 0, peak, s1)
            IN [pts |-> s2.pts, left |-> s2.left,
                species |-> (counter :> s2.sp) @@ species,
                log |-> s2.log, outcome |-> "linked"]

\* ------------------------------------------------------ link_between_frames
NoSpecies == [k \in {} |-> <<>>]

\* the first loop with the last feature of every map left out
PointListsDropLast(maps) == [i \in 1..Len(maps) |-> [k \in 1..(Len(maps[i]) - 1) |->
    <<maps[i][k][1], maps[i][k][2], maps[i][k][3], maps[i][k][4]>>]]

\* the feature maps as lists of points [mz, rt, intensity, charge]
PointLists(maps) == [i \in 1..Len(maps) |-> [k \in 1..Len(maps[i]) |->
    <<maps[i][k][1], maps[i][k][2], maps[i][k][3], maps[i][k][4]>>]]

NumUnclassified(left) == Cardinality({k \in 1..Len(left) : left[k] > 0})

\* closing loops that take only the first point of each frame
RECURSIVE LeftoverPairsFirstOnly(_, _, _)
LeftoverPairsFirstOnly(pts, left, key) ==
    IF key >= Len(pts) THEN <<>>
    ELSE (IF At(left, key) > 0
          THEN <<<<rt_idx_to_rt(key), At(pts, key)[1]>>>>
          ELSE <<>>) \o LeftoverPairsFirstOnly(pts, left, key + 1)

\* the closing loops: each remaining point, frame by frame, with its coordinate
RECURSIVE LeftoverPairs(_, _, _)
LeftoverPairs(pts, left, key) ==
    IF key >= Len(pts) THEN <<>>
    ELSE (IF At(left, key) > 0
          THEN [k \in 1..Len(At(pts, key)) |-> <<rt_idx_to_rt(key), At(pts, key)[k]>>]
          ELSE <<>>) \o LeftoverPairs(pts, left, key + 1)

EmitLeftovers(pts, left, species, counter) ==
    LET pairs == LeftoverPairs(pts, left, 0)
    IN [k \in (DOMAIN species) \cup {counter + j - 1 : j \in 1..Len(pairs)} |->
          IF k >= counter /\ k - counter + 1 <= Len(pairs)
          THEN << <<pairs[k - counter + 1][1]>>, <<pairs[k - counter + 1][2]>> >>
          ELSE species[k]]

LeftoverCount(pts, left) == Len(LeftoverPairs(pts, left, 0))

\* ------------------------------------------------ search_through_all_frames
NoPrecursors == [k \in {} |-> <<>>]

\* the test without the charge
MatchesNoCharge(precursor, point) ==
    /\ precursor[1] - Epsilon <= point[1] /\ point[1] <= precursor[1] + Epsilon
    /\ precursor[2] - Epsilon <= point[2] /\ point[2] <= precursor[2] + Epsilon

\* the test of a point against the precursor
Matches(precursor, point) ==
    /\ precursor[1] - Epsilon <= point[1] /\ point[1] <= precursor[1] + Epsilon
    /\ precursor[2] - Epsilon <= point[2] /\ point[2] <= precursor[2] + Epsilon
    /\ point[3 + 1] = precursor[3 + 1]

\* the loop over the points of frame k; group is <<frame indices, points>>
RECURSIVE ScanPoints(_, _, _, _, _)
ScanPoints(points, l, k, precursor, group) ==
    IF l >= Len(points) THEN group
    ELSE ScanPoints(points, l + 1, k, precursor,
            IF Matches(precursor, At(points, l)) /\ ~Contains(group[2], At(points, l))
            THEN <<Append(group[1], k), Append(group[2], At(points, l))>>
            ELSE group)

\* len(rt_idx_to_points[i + 1:]), the stop of the range over k
ScanStop(pts, i) == IF Len(pts) - (i + 1) > 0 THEN Len(pts) - (i + 1) ELSE 0

\* for k in range(k, stop)
RECURSIVE ScanFrames(_, _, _, _, _)
ScanFrames(pts, k, stop, precursor, group) ==
    IF k >= stop THEN group
    ELSE ScanFrames(pts, k + 1, stop, precursor,
                    ScanPoints(At(pts, k), 0, k, precursor, group))

\* the group of precursor j of target frame i
PrecursorGroup(pts, i, j) ==
    LET precursor == At(At(pts, i), j)
    IN ScanFrames(pts, i + 1, ScanStop(pts, i), precursor, <<<<i>>, <<precursor>>>>)

\* the loop over the precursors of target frame i
SearchTarget(pts, i, precursors, counter) ==
    LET n == Len(At(pts, i))
    IN [k \in (DOMAIN precursors) \cup {counter + j : j \in 0..(n - 1)} |->
          IF k >= counter /\ k - counter < n
          THEN PrecursorGroup(pts, i, k - counter)
          ELSE precursors[k]]

\* the target lists the driver may hand over, as its range(0, 282, 17):
\* range(a, n, step) with the step 1 (every frame from a on) or n (a alone)
Range(a, n, step) == [k \in 1..((n - a + step - 1) \div step) |-> a + (k - 1) * step]

TargetLists(n) == {<<>>} \cup {Range(a, n, step) : a \in 0..(n - 1), step \in {1, n}}

\* ------------------------------------------------- mass_spec_point_cloud.py
\* A MassSpecDataPoint is the record of its four fields.  A numpy array of
\* points is the sequence of its rows, a row the tuple of its entries, so
\* column c of the source is entry c+1; np.array([]) and the array of no row
\* are the empty sequence, of one dimension.
CloudPoint(mz, dt, rt, intensity) ==
    [mz |-> mz, dt |-> dt, rt |-> rt, intensity |-> intensity]

\* the points a cloud may hold: inside, on the edge of and outside the boxes
CloudPoints == {CloudPoint(1, 1, 1, 1), CloudPoint(2, 2, 2, 9), CloudPoint(3, 2, 2, 1),
                CloudPoint(2, 3, 2, 1), CloudPoint(2, 2, 3, 1)}

\* the bounds a caller may pass: over two, three and four axes
Boxes2 == {[lower_left |-> <<1, 1>>, upper_right |-> <<2, 2>>],
           [lower_left |-> <<2, 2>>, upper_right |-> <<3, 3>>]}
Boxes3 == {[lower_left |-> <<1, 1, 1>>, upper_right |-> <<2, 2, 2>>],
           [lower_left |-> <<1, 1, 1, 1>>, upper_right |-> <<2, 2, 2, 2>>]}

\* MassSpecDataPoint.get_array
get_array(point) == <<point.mz, point.dt, point.rt, point.intensity>>

EmptyArray == <<>>

\* np.array([point.get_array() for point in self.data])
ArrayOfRows(data) == [k \in 1..Len(data) |-> get_array(data[k])]

NDim(arr) == IF arr = <<>> THEN 1 ELSE 2

Size(arr) == IF arr = <<>> THEN 0 ELSE Len(arr) * Len(arr[1])

\* bool(arr): "True", "False" or "ValueError".  The truth value of an array
\* of more than one element is an error; that of an empty array is what the
\* installed numpy makes of it (empty_truth): False, deprecated, or an error.
Truth(arr, empty_truth) ==
    IF Size(arr) = 0 THEN empty_truth
    ELSE IF Size(arr) = 1 THEN (IF arr[1][1] # 0 THEN "True" ELSE "False")
    ELSE "ValueError"

\* MassSpecDataPointCloud.get_points_array
get_points_array(data, points_array, empty_truth) ==
    LET t == Truth(points_array, empty_truth)
    IN IF t = "ValueError"
       THEN [outcome |-> "ValueError", points_array |-> points_array,
             value |-> <<>>, computed |-> FALSE]
       ELSE IF t = "False"
       THEN [outcome |-> "ok", points_array |-> ArrayOfRows(data),
             value |-> ArrayOfRows(data), computed |-> TRUE]
       ELSE [outcome |-> "ok", points_array |-> points_array,
             value |-> points_array, computed |-> FALSE]

\* arr[:, cols] of an array of two dimensions
Columns(arr, cols) == [k \in 1..Len(arr) |-> [c \in 1..Len(cols) |-> arr[k][cols[c] + 1]]]

\* the shapes (len,) and (n, width) broadcast together
Broadcasts(len, width) == len = width \/ len = 1

\* one row of (lower_left <= pts) & (pts <= upper_right), reduced by np.all
RowInBox(lower_left, row, upper_right) ==
    \A c \in 1..Len(row) :
        /\ lower_left[IF Len(lower_left) = 1 THEN 1 ELSE c] <= row[c]
        /\ row[c] <= upper_right[IF Len(upper_right) = 1 THEN 1 ELSE c]

\* arr[mask]: the rows of arr at which the mask holds, in order
RECURSIVE SelectRows(_, _)
SelectRows(arr, mask) ==
    IF arr = <<>> THEN <<>>
    ELSE (IF Head(mask) THEN <<Head(arr)>> ELSE <<>>) \o SelectRows(Tail(arr), Tail(mask))

Raised(error, points_array) ==
    [outcome |-> error, points_array |-> points_array, value |-> <<>>]

\* MassSpecDataPointCloud.get_mz_and_dt_bounded_points_array
get_mz_and_dt_bounded_points_array(data, points_array, empty_truth, lower_left, upper_right) ==
    LET g1 == get_points_array(data, points_array, empty_truth)
    IN IF g1.outcome # "ok" THEN Raised(g1.outcome, g1.points_array)
       ELSE IF NDim(g1.value) < 2 THEN Raised("IndexError", g1.points_array)
       ELSE LET xy_pts == Columns(g1.value, <<0, 1>>)
            IN IF ~Broadcasts(Len(lower_left), 2) \/ ~Broadcasts(Len(upper_right), 2)
               THEN Raised("ValueError", g1.points_array)
               ELSE LET in_idx == [k \in 1..Len(xy_pts) |->
                                     RowInBox(lower_left, xy_pts[k], upper_right)]
                        g2 == get_points_array(data, g1.points_array, empty_truth)
                    IN IF g2.outcome # "ok" THEN Raised(g2.outcome, g2.points_array)
                       ELSE [outcome |-> "ok", points_array |-> g2.points_array,
                             value |-> SelectRows(g2.value, in_idx)]

\* MassSpecDataPointCloud.get_mz_dt_and_rt_bounded_points_array
get_mz_dt_and_rt_bounded_points_array(data, points_array, empty_truth, lower_left, upper_right) ==
    LET g == get_points_array(data, points_array, empty_truth)
    IN IF g.outcome # "ok" THEN Raised(g.outcome, g.points_array)
       ELSE LET pts == g.value
                width == IF NDim(pts) < 2 THEN 0 ELSE Len(pts[1])
            IN IF ~Broadcasts(Len(lower_left), width) \/ ~Broadcasts(Len(upper_right), width)
               THEN Raised("ValueError", g.points_array)
               ELSE IF NDim(pts) < 2 THEN Raised("AxisError", g.points_array)
               ELSE LET in_idx == [k \in 1..Len(pts) |->
                                     RowInBox(lower_left, pts[k], upper_right)]
                    IN [outcome |-> "ok", points_array |-> g.points_array,
                        value |-> SelectRows(pts, in_idx)]

\* ------------------------------------------------------------------- state
VARIABLES
    detected,           \* the feature family of this run
    feature_maps,       \* the frames the driver loaded
    pc,                 \* where the program is
    rt_idx_to_points,   \* the working lists of the running function
    rt_idx_to_num_points_left,
    num_unclassified,
    local_maxima,       \* the rest of the pass's local maxima
    possible_species,
    species_counter,
    last_call,          \* the link_to_peak call made last: seed, outcome, log
    target_feature_map_idxs,   \* the target frames of the search
    target_pos,         \* how many of them the search has done
    possible_precursors,
    precursor_counter,
    returned,           \* what the calls of the search returned, in order
    empty_truth,        \* what the installed numpy makes of bool(np.array([]))
    data,               \* the points of the point cloud
    points_array,       \* the point cloud's cached array
    cloud_calls,        \* how many calls were made on the point cloud
    cloud_last          \* the call made last on it: arguments and result

linkvars == <<rt_idx_to_num_points_left, num_unclassified, local_maxima,
              possible_species, species_counter, last_call>>
searchvars == <<target_feature_map_idxs, target_pos, possible_precursors,
                precursor_counter, returned>>
cloudvars == <<empty_truth, data, points_array, cloud_calls, cloud_last>>
basevars == <<detected, feature_maps, pc, rt_idx_to_points, linkvars, searchvars>>
vars == <<basevars, cloudvars>>

\* first: a pass has begun and made no call yet; nth: the call's place in
\* its pass; before: the working lists when the call was made
NoCall == [rt_idx |-> -1, pt_idx |-> -1, first |-> FALSE, nth |-> -1,
           outcome |-> "none", before |-> <<>>, log |-> <<>>]

\* no call was made on the point cloud yet
NoCloudCall == [method |-> "none", lower_left |-> <<>>, upper_right |-> <<>>,
                outcome |-> "none", value |-> <<>>, computed |-> FALSE,
                before |-> <<>>]

\* MassSpecDataPointCloud.__init__
NewCloud(clouds, truths) ==
    /\ empty_truth \in truths
    /\ data \in clouds
    /\ points_array = EmptyArray
    /\ cloud_calls = 0
    /\ cloud_last = NoCloudCall

\* the driver before its first step
DriverStart(families) ==
    /\ detected \in families
    /\ feature_maps = <<>>
    /\ pc = "driver"
    /\ rt_idx_to_points = <<>>
    /\ rt_idx_to_num_points_left = <<>>
    /\ num_unclassified = 0
    /\ local_maxima = <<>>
    /\ possible_species = NoSpecies
    /\ species_counter = 0
    /\ last_call = NoCall
    /\ target_feature_map_idxs = <<>>
    /\ target_pos = 0
    /\ possible_precursors = NoPrecursors
    /\ precursor_counter = 0
    /\ returned = <<>>

InitWith(families) == DriverStart(families) /\ NewCloud({<<>>}, {"False"})

Init == InitWith(Families)

InitDeep == InitWith({FamDeep})

\* driver: one more feature map is loaded and appended
Load(maxFrames, maxTotal, maxPts) ==
    /\ pc = "driver"
    /\ Len(feature_maps) < maxFrames
    /\ \E fm \in SeqsUpTo(detected, maxPts) :
         /\ TotalLen(feature_maps) + Len(fm) <= maxTotal
         /\ feature_maps' = Append(feature_maps, fm)
    /\ UNCHANGED <<cloudvars, detected, pc, rt_idx_to_points, linkvars, searchvars>>

\* link_between_frames up to its while loop
LinkStart ==
    /\ pc = "driver"
    /\ rt_idx_to_points' = PointLists(feature_maps)
    /\ rt_idx_to_num_points_left' = [i \in 1..Len(feature_maps) |-> Len(feature_maps[i])]
    /\ num_unclassified' = NumUnclassified(rt_idx_to_num_points_left')
    /\ possible_species' = NoSpecies
    /\ species_counter' = 0
    /\ pc' = "link_while"
    /\ UNCHANGED <<cloudvars, detected, feature_maps, local_maxima, last_call, searchvars>>

\* the head of the while loop: the pass's local maxima, or the way out
LinkWhile ==
    /\ pc = "link_while"
    /\ IF num_unclassified > 0
       THEN LET lm == find_local_maxima_indices(rt_idx_to_points)
            IN /\ local_maxima' = lm
               /\ pc' = IF lm = <<>> THEN "link_leftover" ELSE "link_for"
               /\ last_call' = [last_call EXCEPT !.first = TRUE]
       ELSE /\ pc' = "link_leftover"
            /\ UNCHANGED <<local_maxima, last_call>>
    /\ UNCHANGED <<cloudvars, detected, feature_maps, rt_idx_to_points,
                   rt_idx_to_num_points_left, num_unclassified,
                   possible_species, species_counter, searchvars>>

\* one iteration of the for loop: link_to_peak on the next local maximum
LinkFor ==
    /\ pc = "link_for"
    /\ LET rt_idx == Head(local_maxima)[1]
           pt_idx == Head(local_maxima)[2]
           r == link_to_peak(rt_idx, pt_idx, rt_idx_to_points,
                             rt_idx_to_num_points_left, possible_species,
                             species_counter)
       IN /\ last_call' = [rt_idx |-> rt_idx, pt_idx |-> pt_idx,
                           first |-> FALSE,
                           nth |-> IF last_call.first THEN 0 ELSE last_call.nth + 1,
                           outcome |-> r.outcome,
                           before |-> rt_idx_to_points, log |-> r.log]
          /\ IF r.outcome = "IndexError"
             THEN /\ pc' = "link_raised"
                  /\ UNCHANGED <<rt_idx_to_points, rt_idx_to_num_points_left,
                                 possible_species, species_counter, local_maxima>>
             ELSE /\ rt_idx_to_points' = r.pts
                  /\ rt_idx_to_num_points_left' = r.left
                  /\ possible_species' = r.species
                  /\ species_counter' = species_counter + 1
                  /\ local_maxima' = Tail(local_maxima)
                  /\ pc' = IF Tail(local_maxima) = <<>> THEN "link_while" ELSE "link_for"
    /\ UNCHANGED <<cloudvars, detected, feature_maps, num_unclassified, searchvars>>

\* the closing loops and the return
LinkLeftover ==
    /\ pc = "link_leftover"
    /\ possible_species' = EmitLeftovers(rt_idx_to_points, rt_idx_to_num_points_left,
                                         possible_species, species_counter)
    /\ species_counter' = species_counter
                          + LeftoverCount(rt_idx_to_points, rt_idx_to_num_points_left)
    /\ pc' = "link_returned"
    /\ UNCHANGED <<cloudvars, detected, feature_maps, rt_idx_to_points,
                   rt_idx_to_num_points_left, num_unclassified, local_maxima,
                   last_call, searchvars>>

\* a search whose counter outlives the call
SearchEntryKeepCounter(targets) ==
    /\ target_feature_map_idxs' = targets
    /\ rt_idx_to_points' = PointLists(feature_maps)
    /\ possible_precursors' = NoPrecursors
    /\ precursor_counter' = precursor_counter
    /\ target_pos' = 0
    /\ pc' = "search_for"

\* search_through_all_frames up to its loop over the target frames: the
\* point lists, the mapping and the counter are made anew by every call
SearchEntry(targets) ==
    /\ target_feature_map_idxs' = targets
    /\ rt_idx_to_points' = PointLists(feature_maps)
    /\ possible_precursors' = NoPrecursors
    /\ precursor_counter' = 0
    /\ target_pos' = 0
    /\ pc' = "search_for"

\* the driver calls the search
SearchStart ==
    /\ pc = "driver"
    /\ \E t \in TargetLists(Len(feature_maps)) : SearchEntry(t)
    /\ UNCHANGED <<cloudvars, detected, feature_maps, linkvars, returned>>

\* the search is called once more, with the same frames and targets
SearchAgain ==
    /\ pc = "search_returned"
    /\ Len(returned) < SearchCalls
    /\ SearchEntry(target_feature_map_idxs)
    /\ UNCHANGED <<cloudvars, detected, feature_maps, linkvars, returned>>

\* one iteration of the loop over the target frames
SearchFor ==
    /\ pc = "search_for"
    /\ target_pos < Len(target_feature_map_idxs)
    /\ LET i == At(target_feature_map_idxs, target_pos)
       IN /\ possible_precursors' = SearchTarget(rt_idx_to_points, i,
                                        possible_precursors, precursor_counter)
          /\ precursor_counter' = precursor_counter + Len(At(rt_idx_to_points, i))
    /\ target_pos' = target_pos + 1
    /\ UNCHANGED <<cloudvars, detected, feature_maps, pc, rt_idx_to_points, linkvars,
                   target_feature_map_idxs, returned>>

\* the loop is over: the search returns possible_precursors
SearchReturn ==
    /\ pc = "search_for"
    /\ target_pos >= Len(target_feature_map_idxs)
    /\ pc' = "search_returned"
    /\ returned' = Append(returned, possible_precursors)
    /\ UNCHANGED <<cloudvars, detected, feature_maps, rt_idx_to_points, linkvars,
                   target_feature_map_idxs, target_pos, possible_precursors,
                   precursor_counter>>

LoadFeatureMap == Load(MaxFrames, MaxTotal, MaxPts)

LoadDeepFeatureMap == Load(DeepFrames, DeepTotal, DeepPts)

LoadSearchFeatureMap == Load(SearchFrames, SearchTotal, SearchPts)

Next ==
    \/ LoadFeatureMap
    \/ LinkStart
    \/ LinkWhile
    \/ LinkFor
    \/ LinkLeftover
    \/ SearchStart
    \/ SearchFor
    \/ SearchReturn

Spec == Init /\ [][Next]_vars

\* the linking alone, on more and longer frame lists
NextDeep ==
    \/ LoadDeepFeatureMap
    \/ LinkStart
    \/ LinkWhile
    \/ LinkFor
    \/ LinkLeftover

SpecDeep == InitDeep /\ [][NextDeep]_vars

\* the search alone, called again on the frames and targets of its first call
NextSearch ==
    \/ LoadSearchFeatureMap
    \/ SearchStart
    \/ SearchFor
    \/ SearchReturn
    \/ SearchAgain

SpecSearch == Init /\ [][NextSearch]_vars

\* a caller's call of get_points_array
GetPointsArray ==
    /\ cloud_calls < MaxCalls
    /\ LET r == get_points_array(data, points_array, empty_truth)
       IN /\ points_array' = r.points_array
          /\ cloud_last' = [method |-> "get_points_array",
                            lower_left |-> <<>>, upper_right |-> <<>>,
                            outcome |-> r.outcome, value |-> r.value,
                            computed |-> r.computed, before |-> points_array]
    /\ cloud_calls' = cloud_calls + 1
    /\ UNCHANGED <<basevars, empty_truth, data>>

\* a caller's call of get_mz_and_dt_bounded_points_array
GetMzAndDtBounded ==
    /\ cloud_calls < MaxCalls
    /\ \E box \in Boxes2 :
         LET r == get_mz_and_dt_bounded_points_array(data, points_array, empty_truth,
                                                     box.lower_left, box.upper_right)
         IN /\ points_array' = r.points_array
            /\ cloud_last' = [method |-> "get_mz_and_dt_bounded_points_array",
                              lower_left |-> box.lower_left,
                              upper_right |-> box.upper_right,
                              outcome |-> r.outcome, value |-> r.value,
                              computed |-> FALSE, before |-> points_array]
    /\ cloud_calls' = cloud_calls + 1
    /\ UNCHANGED <<basevars, empty_truth, data>>

\* a caller's call of get_mz_dt_and_rt_bounded_points_array
GetMzDtAndRtBounded ==
    /\ cloud_calls < MaxCalls
    /\ \E box \in Boxes3 :
         LET r == get_mz_dt_and_rt_bounded_points_array(data, points_array, empty_truth,
                                                        box.lower_left, box.upper_right)
         IN /\ points_array' = r.points_array
            /\ cloud_last' = [method |-> "get_mz_dt_and_rt_bounded_points_array",
                              lower_left |-> box.lower_left,
                              upper_right |-> box.upper_right,
                              outcome |-> r.outcome, value |-> r.value,
                              computed |-> FALSE, before |-> points_array]
    /\ cloud_calls' = cloud_calls + 1
    /\ UNCHANGED <<basevars, empty_truth, data>>

\* the point cloud container alone
InitCloud ==
    /\ DriverStart({{}})
    /\ NewCloud(SeqsUpTo(CloudPoints, MaxCloud), {"False", "ValueError"})

NextCloud ==
    \/ GetPointsArray
    \/ GetMzAndDtBounded
    \/ GetMzDtAndRtBounded

SpecCloud == InitCloud /\ [][NextCloud]_vars

\* -------------------------------------------------------------- properties
Abs(x) == IF x < 0 THEN -x ELSE x

\* mz and rt of b within epsilon of those of a, bounds included
Near(a, b) == Abs(a[1] - b[1]) <= Epsilon /\ Abs(a[2] - b[2]) <= Epsilon

CountIn(list, p) == Cardinality({k \in 1..Len(list) : list[k] = p})

RECURSIVE CountInFrames(_, _)
CountInFrames(frames, p) ==
    IF frames = <<>> THEN 0
    ELSE CountIn(Head(frames), p) + CountInFrames(Tail(frames), p)

RECURSIVE CountInSpecies(_, _, _)
CountInSpecies(species, ids, p) ==
    IF ids = {} THEN 0
    ELSE LET id == CHOOSE x \in ids : TRUE
         IN CountIn(species[id][2], p) + CountInSpecies(species, ids \ {id}, p)

\* A species lists its seed, then the backward links, then the forward links.
\* The backward links are the entries with a coordinate below the seed's.
NumBack(sp) == Cardinality({k \in 2..Len(sp[1]) : sp[1][k] < sp[1][1]})
BackChain(sp) == <<sp[2][1]>> \o SubSeq(sp[2], 2, 1 + NumBack(sp))
ForwardChain(sp) == <<sp[2][1]>> \o SubSeq(sp[2], 2 + NumBack(sp), Len(sp[2]))
Chains(sp) == {BackChain(sp), ForwardChain(sp)}

\* C1: when link_between_frames has returned, the points of all Species
\* together are exactly the multiset of the input points: each input point is
\* in the Species as often as in the input, and no other point is.
C1_SpeciesPartitionInput ==
    pc = "link_returned" =>
        /\ \A p \in detected :
             CountInSpecies(possible_species, DOMAIN possible_species, p)
                = CountInFrames(feature_maps, p)
        /\ \A id \in DOMAIN possible_species :
             /\ Len(possible_species[id][2]) >= 1
             /\ \A k \in 1..Len(possible_species[id][2]) :
                  possible_species[id][2][k] \in detected

\* C1 happens: a run returned a chain of two points or more beside another Species
C1_Witness ==
    /\ pc = "link_returned"
    /\ Cardinality(DOMAIN possible_species) >= 2
    /\ \E id \in DOMAIN possible_species : Len(possible_species[id][2]) >= 2

\* C2: in every Species, the intensities along the backward walk and along
\* the forward walk, read from the seed outward, are strictly decreasing: each
\* linked point is less intense than the point linked just before it.
C2_IntensityStrictlyDecreasing ==
    \A id \in DOMAIN possible_species :
        \A c \in Chains(possible_species[id]) :
            \A k \in 2..Len(c) : c[k][3] < c[k - 1][3]

\* C3: the group of the precursor p of target frame i holds every point q of
\* every frame k with i < k <= N-1 whose mz and rt are within epsilon of p's
\* and whose charge is p's.
C3_GroupHoldsEveryLaterMatch ==
    \A id \in DOMAIN possible_precursors :
        LET g == possible_precursors[id]
            i == g[1][1]
            p == g[2][1]
        IN \A k \in (i + 1)..(Len(rt_idx_to_points) - 1) :
             \A l \in 1..Len(At(rt_idx_to_points, k)) :
                LET q == At(rt_idx_to_points, k)[l]
                IN (Near(p, q) /\ q[4] = p[4]) => Contains(g[2], q)

\* C4 as stated: every linked point is within epsilon, in mz and in rt, of the
\* point linked just before it in its walk, and has that point's charge.
C4_NearPreviousLinked ==
    \A id \in DOMAIN possible_species :
        \A c \in Chains(possible_species[id]) :
            \A k \in 2..Len(c) : Near(c[k - 1], c[k]) /\ c[k][4] = c[k - 1][4]

\* C4 amended: every linked point is within epsilon, in mz and in rt, of the
\* seed of its Species (not of the point linked just before it), and has the
\* seed's charge, hence the charge of the point linked before it.
C4_NearSeed ==
    \A id \in DOMAIN possible_species :
        LET sp == possible_species[id]
        IN /\ \A k \in 2..Len(sp[2]) : Near(sp[2][1], sp[2][k]) /\ sp[2][k][4] = sp[2][1][4]
           /\ \A c \in Chains(sp) : \A k \in 2..Len(c) : c[k][4] = c[k - 1][4]

\* C4 happens: a Species holds a linked point at exactly epsilon from its seed
C4_Witness ==
    \E id \in DOMAIN possible_species :
        LET sp == possible_species[id]
        IN \E k \in 2..Len(sp[2]) : Abs(sp[2][k][1] - sp[2][1][1]) = Epsilon

\* C5: a walk stops on a frame without a qualifying point only when that
\* frame is the third such frame in a row: the two frames visited just before
\* it in the walk were skipped, with no link between them and the stop.
C5_StopsOnlyAtThirdConsecutive ==
    \A k \in 1..Len(last_call.log) :
        last_call.log[k].kind = "stop" =>
            /\ k >= 3
            /\ \A m \in {k - 1, k - 2} :
                 /\ last_call.log[m].kind = "skip"
                 /\ last_call.log[m].dir = last_call.log[k].dir

\* the states in which link_between_frames runs no more
LinkStopped == pc \in {"link_raised", "link_returned"}

\* C6: the loop of link_between_frames ends in a pass without local maximum
\* or without points, and the function then returns: whenever the function
\* has stopped running, it has returned.
C6_LoopEndsAndReturns == LinkStopped => pc = "link_returned"

\* C7: every point left in a working list when the loop exits is a Species
\* of its own, with one coordinate, that of its frame, and one point, itself
\* (as many such Species as the frame holds copies of the point).
C7_LeftoversAreSingletons ==
    pc = "link_returned" =>
        \A key \in 0..(Len(rt_idx_to_points) - 1) :
            \A k \in 1..Len(At(rt_idx_to_points, key)) :
                LET point == At(rt_idx_to_points, key)[k]
                    own == << <<rt_idx_to_rt(key)>>, <<point>> >>
                IN Cardinality({id \in DOMAIN possible_species :
                                    possible_species[id] = own})
                     >= CountIn(At(rt_idx_to_points, key), point)

\* C7 happens: a run returned with a point left in a frame, beside a chain
C7_Witness ==
    /\ pc = "link_returned"
    /\ \E key \in 0..(Len(rt_idx_to_points) - 1) : Len(At(rt_idx_to_points, key)) >= 1
    /\ \E id \in DOMAIN possible_species : Len(possible_species[id][2]) >= 2

\* the largest intensity of a frame, 0 for an empty frame
LargestIntensity(frame) ==
    IF Len(frame) = 0 THEN 0
    ELSE CHOOSE v \in {frame[k][3] : k \in 1..Len(frame)} :
            \A k \in 1..Len(frame) : frame[k][3] <= v

\* the frames f with 0 < f < N-1, M[f] > M[f-1] and M[f] > M[f+1]
StrictInteriorMaxima(frames) ==
    LET M == [f \in 0..(Len(frames) - 1) |-> LargestIntensity(At(frames, f))]
    IN {f \in 0..(Len(frames) - 1) :
            /\ 0 < f /\ f < Len(frames) - 1
            /\ M[f] > M[f - 1]
            /\ M[f] > M[f + 1]}

\* C8: find_local_maxima_indices returns exactly the pairs (f, p) with
\* 0 < f < N-1, M[f] > M[f-1], M[f] > M[f+1] and p the index of a most intense
\* point of frame f: each such frame once, never the first or the last frame,
\* nothing when all frames are empty.  Stated of the working lists of every
\* state of the linking, and of the list the loop works on.
C8_LocalMaximaAreStrictInterior ==
    pc \in {"link_while", "link_for", "link_leftover"} =>
        LET lm == find_local_maxima_indices(rt_idx_to_points)
            want == StrictInteriorMaxima(rt_idx_to_points)
        IN /\ {lm[k][1] : k \in 1..Len(lm)} = want
           /\ Len(lm) = Cardinality(want)
           /\ \A k \in 1..Len(lm) :
                LET frame == At(rt_idx_to_points, lm[k][1])
                IN /\ 0 <= lm[k][2] /\ lm[k][2] < Len(frame)
                   /\ At(frame, lm[k][2])[3] = LargestIntensity(frame)
                   /\ lm[k][1] # 0 /\ lm[k][1] # Len(rt_idx_to_points) - 1
           /\ (\A f \in 1..Len(rt_idx_to_points) : rt_idx_to_points[f] = <<>>)
                => lm = <<>>
           /\ (pc \in {"link_for", "link_leftover"} /\ last_call.first)
                => local_maxima = lm

\* C8 happens: a pass begins with two local maxima and a non-empty first frame
C8_Witness ==
    /\ pc = "link_for"
    /\ last_call.first
    /\ Len(local_maxima) = 2
    /\ Len(At(rt_idx_to_points, 0)) > 0

C10_GroupPointsMatchSeed ==
    \A id \in DOMAIN possible_precursors :
        LET g == possible_precursors[id]
        IN /\ Len(g[1]) = Len(g[2])
           /\ \A n \in 2..Len(g[2]) :
                /\ g[1][n] > g[1][1]
                /\ g[1][n] < Len(rt_idx_to_points)
                /\ Contains(At(rt_idx_to_points, g[1][n]), g[2][n])
                /\ Near(g[2][1], g[2][n])
                /\ g[2][n][4] = g[2][1][4]

\* C10 happens: a group took a point of a later frame and left one of another
\* charge whose mz and rt match
C10_Witness ==
    \E id \in DOMAIN possible_precursors :
        LET g == possible_precursors[id]
        IN /\ Len(g[2]) >= 2
           /\ \E k \in (g[1][1] + 1)..(Len(rt_idx_to_points) - 1) :
                \E l \in 1..Len(At(rt_idx_to_points, k)) :
                    LET q == At(rt_idx_to_points, k)[l]
                    IN Near(g[2][1], q) /\ q[4] # g[2][1][4] /\ ~Contains(g[2], q)

\* C11: search_through_all_frames leaves every frame's point list unchanged.
\* Its first step builds, for every frame, the list of the frame's points in
\* the frame's order; no later step of the search changes the frames or a
\* list, whatever the target list.
C11_SearchLeavesFramesUnchanged ==
    [][/\ (pc = "driver" /\ pc' = "search_for") =>
            /\ feature_maps' = feature_maps
            /\ Len(rt_idx_to_points') = Len(feature_maps)
            /\ \A f \in 1..Len(feature_maps) :
                 /\ Len(rt_idx_to_points'[f]) = Len(feature_maps[f])
                 /\ \A k \in 1..Len(feature_maps[f]) :
                      rt_idx_to_points'[f][k] = feature_maps[f][k]
       /\ pc = "search_for" =>
            /\ feature_maps' = feature_maps
            /\ rt_idx_to_points' = rt_idx_to_points]_vars

\* C11 happens: a search over two target frames or more returned a group with
\* a point of a later frame
C11_Witness ==
    /\ pc = "search_returned"
    /\ Len(target_feature_map_idxs) >= 2
    /\ \E id \in DOMAIN possible_precursors : Len(possible_precursors[id][2]) >= 2
    /\ rt_idx_to_points = feature_maps

\* the frame coordinates of a Species, pairwise different
DistinctCoordinates(sp) ==
    \A a, b \in 1..Len(sp[1]) : a # b => sp[1][a] # sp[1][b]

\* C12: in every state of the linking, every Species of the mapping has as
\* many frame coordinates as points, and no frame gives it more than one
\* point: its coordinates are pairwise different, those of the backward walk
\* going down from the seed's and those of the forward walk going up.
C12_EqualLengthNoFrameRevisited ==
    \A id \in DOMAIN possible_species :
        LET sp == possible_species[id]
            nb == NumBack(sp)
        IN /\ Len(sp[1]) = Len(sp[2])
           /\ Len(sp[1]) >= 1
           /\ DistinctCoordinates(sp)
           /\ \A k \in 2..(1 + nb) : sp[1][k] < sp[1][IF k = 2 THEN 1 ELSE k - 1]
           /\ \A k \in (2 + nb)..Len(sp[1]) :
                sp[1][k] > sp[1][IF k = 2 + nb THEN 1 ELSE k - 1]

\* C12 happens: a Species has a backward link and a forward link
C12_Witness ==
    \E id \in DOMAIN possible_species :
        LET sp == possible_species[id]
        IN /\ NumBack(sp) >= 1
           /\ Len(sp[2]) >= 2 + NumBack(sp)

\* C13: every Species lists its frame coordinates, and with them its points,
\* in ascending frame order: each coordinate is above the one before it.
C13_AscendingFrameOrder ==
    \A id \in DOMAIN possible_species :
        LET sp == possible_species[id]
        IN \A k \in 2..Len(sp[1]) : sp[1][k - 1] < sp[1][k]

\* the rows of the points of the cloud whose first n coordinates (mz, dt and,
\* for n = 3, rt) lie within the bounds, bounds included, in the cloud's order
RECURSIVE PointsInBox(_, _, _, _)
PointsInBox(points, n, lower_left, upper_right) ==
    IF points = <<>> THEN <<>>
    ELSE LET p == Head(points)
             xs == <<p.mz, p.dt, p.rt>>
         IN (IF \A c \in 1..n : lower_left[c] <= xs[c] /\ xs[c] <= upper_right[c]
             THEN << <<p.mz, p.dt, p.rt, p.intensity>> >>
             ELSE <<>>) \o PointsInBox(Tail(points), n, lower_left, upper_right)

\* C14: on a cloud that holds a point, get_mz_and_dt_bounded_points_array
\* raises no error and returns exactly the points whose mz and dt lie within
\* the bounds, bounds included.
C14_MzDtBoxReturnsPointsInside ==
    (cloud_last.method = "get_mz_and_dt_bounded_points_array" /\ Len(data) > 0) =>
        /\ cloud_last.outcome = "ok"
        /\ cloud_last.value = PointsInBox(data, 2, cloud_last.lower_left,
                                          cloud_last.upper_right)

\* C15: get_mz_dt_and_rt_bounded_points_array, given bounds over the three
\* axes mz, dt and rt, returns exactly the points whose mz, dt and rt lie
\* within the bounds, bounds included, whatever their intensity.
C15_MzDtRtBoxIgnoresIntensity ==
    (/\ cloud_last.method = "get_mz_dt_and_rt_bounded_points_array"
     /\ Len(cloud_last.lower_left) = 3) =>
        /\ cloud_last.outcome = "ok"
        /\ cloud_last.value = PointsInBox(data, 3, cloud_last.lower_left,
                                          cloud_last.upper_right)

\* C16: every call of get_points_array succeeds and returns the array of all
\* points; the first call on a cloud computes the array and no later call does.
C16_EveryCallReturnsCachedArray ==
    cloud_last.method = "get_points_array" =>
        /\ cloud_last.outcome = "ok"
        /\ cloud_last.value = PointsInBox(data, 0, <<>>, <<>>)
        /\ cloud_last.computed <=> (cloud_calls = 1)

\* C17: two calls of search_through_all_frames with the same frames, targets
\* and epsilon return the same mapping: the same group ids, each with the same
\* frame indices and the same points in the same order.
C17_SearchIsDeterministic ==
    \A a, b \in 1..Len(returned) :
        /\ DOMAIN returned[a] = DOMAIN returned[b]
        /\ \A id \in DOMAIN returned[a] : returned[a][id] = returned[b][id]

\* C17 happens: the search returned twice, groups of several points among
\* several groups
C17_Witness ==
    /\ pc = "search_returned"
    /\ Len(returned) = 2
    /\ Cardinality(DOMAIN returned[2]) >= 2
    /\ \E id \in DOMAIN returned[2] : Len(returned[2][id][2]) >= 2

\* C18: when link_between_frames has returned, species_counter is the number
\* of Species of the mapping, and the ids of the Species are 0 .. count-1.
C18_CounterCountsSpecies ==
    pc = "link_returned" =>
        /\ species_counter = Cardinality(DOMAIN possible_species)
        /\ DOMAIN possible_species = 0..(species_counter - 1)

\* C19: whenever link_between_frames hands a local maximum (rt_idx, pt_idx)
\* to link_to_peak, pt_idx is an index into the frame's working list as it is
\* then, and the point at it is a most intense point of that list: the seed's
\* removal is never out of range and never takes another point.
C19_PtIdxValidAndMostIntense ==
    last_call.rt_idx >= 0 =>
        LET frame == At(last_call.before, last_call.rt_idx)
        IN /\ 0 <= last_call.pt_idx /\ last_call.pt_idx < Len(frame)
           /\ At(frame, last_call.pt_idx)[3] = LargestIntensity(frame)
           /\ last_call.outcome # "IndexError"

\* the log entries of the last call that are links, in order
LinkEntries(log) == SelectSeq(log, LAMBDA e : e.kind = "link")

\* the points of a frame that qualify for a seed, as source indices
QualifyingIdxs(frame, seed) ==
    {i \in 0..(Len(frame) - 1) :
        /\ Near(seed, At(frame, i))
        /\ At(frame, i)[4] = seed[4]
        /\ At(frame, i)[3] < seed[3]}

\* C20: for every frame in which the last call of link_to_peak linked a
\* point, the point linked is the qualifying point of the lowest index in the
\* frame's list as the call found it, and the frame's list after the call is
\* that list without this one point, the other points in their order.
C20_FirstMatchWins ==
    (pc \in {"link_while", "link_for"} /\ last_call.outcome = "linked") =>
        LET sp == possible_species[species_counter - 1]
            links == LinkEntries(last_call.log)
        IN /\ Len(links) = Len(sp[2]) - 1
           /\ \A j \in 1..Len(links) :
                LET frame == At(last_call.before, links[j].idx)
                    after == At(rt_idx_to_points, links[j].idx)
                    q == QualifyingIdxs(frame, sp[2][1])
                IN /\ q # {}
                   /\ \E i \in q :
                        /\ \A m \in q : i <= m
                        /\ sp[2][1 + j] = At(frame, i)
                        /\ Len(after) = Len(frame) - 1
                        /\ \A k \in 1..Len(after) :
                             after[k] = IF k <= i THEN frame[k] ELSE frame[k + 1]

\* C20 happens: a point was linked although a later point of its frame
\* qualifies too and is closer to the seed in mz
C20_Witness ==
    /\ pc \in {"link_while", "link_for"}
    /\ last_call.outcome = "linked"
    /\ LET sp == possible_species[species_counter - 1]
           links == LinkEntries(last_call.log)
       IN \E j \in 1..Len(links) :
            LET frame == At(last_call.before, links[j].idx)
                q == QualifyingIdxs(frame, sp[2][1])
            IN \E m \in q :
                 /\ At(frame, m) # sp[2][1 + j]
                 /\ Abs(At(frame, m)[1] - sp[2][1][1]) < Abs(sp[2][1 + j][1] - sp[2][1][1])
=============================================================================
